---- MODULE Spec2Model ----
(***************************************************************************)
(* Model of HttpResponse::new (simple-http/src/http/response.rs): the      *)
(* response builder of the file server.  One invocation is a sequence of   *)
(* steps, one per file-system access, over a small file system.            *)
(*                                                                         *)
(* A path is a sequence of segments (the text between the slashes, "."     *)
(* and ".." included); a request path is [abs, segs], abs telling whether  *)
(* the string starts with "/".  The response text is a sequence of pieces  *)
(* in the order they are written.  The file systems have no symbolic       *)
(* links.                                                                  *)
(***************************************************************************)
EXTENDS Integers, Sequences, FiniteSets, TLC

VARIABLES fs, pc, request, server_root_path, resource, new_path,
          rootcwd_len, resource_len, status, content_length, accept_ranges,
          content, response_body, result

vars == <<fs, pc, request, server_root_path, resource, new_path,
          rootcwd_len, resource_len, status, content_length, accept_ranges,
          content, response_body, result>>

locals == <<server_root_path, resource, new_path, rootcwd_len, resource_len,
            status, content_length, accept_ranges, content, response_body>>

(* ---------------------------- bounds ----------------------------------- *)

\* longest request path, in segments
MaxSegs == 2

(* ------------------------- the file system ----------------------------- *)

\* the working directory of the server process, "/www"
Root == <<"www">>

\* segments a request path is made of
Segments == {".", "..", "sub", "f", "other", "www"}

\* the paths that may hold something besides "/" itself
Nodes == {<<"www">>, <<"www", "sub">>, <<"www", "sub", "f">>, <<"www", "f">>,
          <<"other">>, <<"other", "f">>}

\* contents a regular file may have: empty, ASCII, a two-byte UTF-8
\* character, and the JPEG signature (which is not valid UTF-8)
FileContents == {<<>>, <<65, 66>>, <<195, 169>>, <<255, 216, 255>>}

None == [kind |-> "none", bytes |-> <<>>, readable |-> FALSE]
Dir(r) == [kind |-> "dir", bytes |-> <<>>, readable |-> r]
File(b, r) == [kind |-> "file", bytes |-> b, readable |-> r]
Fifo == [kind |-> "fifo", bytes |-> <<>>, readable |-> TRUE]

Parent(p) == IF p = <<>> THEN <<>> ELSE SubSeq(p, 1, Len(p) - 1)

Entry(f, p) == IF p = <<>> THEN Dir(TRUE) ELSE IF p \in Nodes THEN f[p] ELSE None

Kind(f, p) == Entry(f, p).kind

\* every entry lies in a directory
WellFormed(f) == \A p \in Nodes : f[p].kind # "none" => Kind(f, Parent(p)) = "dir"

MkFs(w, s, sf, f, o, of) ==
    (<<"www">> :> w) @@ (<<"www", "sub">> :> s) @@ (<<"www", "sub", "f">> :> sf) @@
    (<<"www", "f">> :> f) @@ (<<"other">> :> o) @@ (<<"other", "f">> :> of)

\* what each path may hold: the root may be gone, "sub" may be an unreadable
\* directory, "f" in the root a fifo or an unreadable file
Allowed ==
    (<<"www">> :> {None, Dir(TRUE)}) @@
    (<<"www", "sub">> :> {None, Dir(TRUE), Dir(FALSE)}) @@
    (<<"www", "sub", "f">> :> {None, File(<<65, 66>>, TRUE)}) @@
    (<<"www", "f">> :> {None, Fifo, File(<<65, 66>>, FALSE)}
                       \cup {File(b, TRUE) : b \in FileContents}) @@
    (<<"other">> :> {None, Dir(TRUE), File(<<65, 66>>, TRUE)}) @@
    (<<"other", "f">> :> {None, File(<<65, 66>>, TRUE)})

\* the file systems an invocation may find
FileSystems ==
    {g \in {MkFs(w, s, sf, f, o, of) :
                w \in Allowed[<<"www">>],
                s \in Allowed[<<"www", "sub">>],
                sf \in Allowed[<<"www", "sub", "f">>],
                f \in Allowed[<<"www", "f">>],
                o \in Allowed[<<"other">>],
                of \in Allowed[<<"other", "f">>]} : WellFormed(g)}

\* what the operating system makes of an absolute path: every segment but
\* the last is looked up in a directory, ".." of "/" is "/"
RECURSIVE Lookup(_, _, _)
Lookup(f, cur, segs) ==
    IF Kind(f, cur) = "none" THEN [ok |-> FALSE, err |-> "NotFound", path |-> cur]
    ELSE IF segs = <<>> THEN [ok |-> TRUE, err |-> "", path |-> cur]
    ELSE IF Kind(f, cur) # "dir" THEN [ok |-> FALSE, err |-> "NotADirectory", path |-> cur]
    ELSE IF Head(segs) = "." THEN Lookup(f, cur, Tail(segs))
    ELSE IF Head(segs) = ".." THEN Lookup(f, Parent(cur), Tail(segs))
    ELSE Lookup(f, Append(cur, Head(segs)), Tail(segs))

Resolve(f, segs) == Lookup(f, <<>>, segs)

\* Path::canonicalize
canonicalize(f, segs) == Resolve(f, segs)

\* Path::components().count() of a canonical path: the root directory and
\* one component per segment
components_count(p) == Len(p) + 1

\* Path::exists, Path::is_file, Path::is_dir
exists(f, segs) == Resolve(f, segs).ok
is_file(f, segs) == Resolve(f, segs).ok /\ Kind(f, Resolve(f, segs).path) = "file"
is_dir(f, segs) == Resolve(f, segs).ok /\ Kind(f, Resolve(f, segs).path) = "dir"

(* ------------------------------ paths ---------------------------------- *)

RECURSIVE SeqsUpTo(_)
SeqsUpTo(n) ==
    IF n = 0 THEN {<<>>}
    ELSE SeqsUpTo(n - 1) \cup
         {Append(s, x) : s \in {t \in SeqsUpTo(n - 1) : Len(t) = n - 1}, x \in Segments}

RequestPaths == [abs : BOOLEAN, segs : SeqsUpTo(MaxSegs)]

Dot == [abs |-> FALSE, segs |-> <<".">>]

\* PathBuf::join: an absolute argument replaces the base
join(base, p) == IF p.abs THEN p.segs ELSE base \o p.segs

RECURSIVE TrimLeft(_)
TrimLeft(s) == IF s # <<>> /\ Head(s) = "." THEN TrimLeft(Tail(s)) ELSE s

\* trailing "." segments are no components; the "." a relative path starts
\* with is one
RECURSIVE TrimRight(_, _)
TrimRight(s, keep) ==
    IF Len(s) > keep /\ s[Len(s)] = "." THEN TrimRight(SubSeq(s, 1, Len(s) - 1), keep) ELSE s

\* Path::parent of the request path, None when there is no last component
parent(p) ==
    LET keep == IF p.abs THEN 0 ELSE 1
        body == TrimRight(p.segs, keep)
    IN  IF body = <<>> THEN [some |-> FALSE, path |-> p]
        ELSE [some |-> TRUE,
              path |-> [abs |-> p.abs,
                        segs |-> TrimRight(SubSeq(body, 1, Len(body) - 1), keep)]]

\* Path::strip_prefix of an absolute path by an absolute base without "."
\* or "..": components are compared, so "." segments are skipped
RECURSIVE strip_prefix(_, _)
strip_prefix(segs, base) ==
    IF base = <<>> THEN [ok |-> TRUE, path |-> [abs |-> FALSE, segs |-> TrimLeft(segs)]]
    ELSE IF segs = <<>> THEN [ok |-> FALSE, path |-> Dot]
    ELSE IF Head(segs) = "." THEN strip_prefix(Tail(segs), base)
    ELSE IF Head(segs) = Head(base) THEN strip_prefix(Tail(segs), Tail(base))
    ELSE [ok |-> FALSE, path |-> Dot]

(* ------------------------- the response text --------------------------- *)

\* pieces of text: a literal, a decimal number, decoded file content, the
\* directory page
T(s) == [t |-> "text", s |-> s]
N(n) == [t |-> "num", n |-> n]
B(b) == [t |-> "bytes", b |-> b]
Page(list) == [t |-> "page", list |-> list]

Forbidden403 == "<html><body><h1>403 Forbidden</h1></body></html>"
NotFound404 == "<html><body><h1>404 Not Found</h1></body></html>"
GoBackText == "Go back up a directory"

\* byte lengths of the page template around the list, and of the literal
\* parts of one list item
PagePrefixLen == 528
PageSuffixLen == 19
LinkLiteralLen == 25

\* the request's Version type and its Display
Versions == {"V1_1", "V2_0"}
VersionDisplay(v) == IF v = "V1_1" THEN "HTTP/1.1" ELSE "HTTP/2"

\* let version: Version = Version::V1_1
version == "V1_1"

\* Display for ResponseStatus
ResponseStatusDisplay(st) == IF st = "OK" THEN "200 OK" ELSE "404 NOT FOUND"

\* Display for AcceptRanges
AcceptRangesDisplay(a) == IF a = "Bytes" THEN "accept-ranges: bytes" ELSE "accept-ranges: none"

\* Path::display
RECURSIVE JoinLen(_)
JoinLen(segs) ==
    IF segs = <<>> THEN 0
    ELSE IF Len(segs) = 1 THEN Len(Head(segs))
    ELSE Len(Head(segs)) + 1 + JoinLen(Tail(segs))

DisplayLen(p) == (IF p.abs THEN 1 ELSE 0) + JoinLen(p.segs)

\* "<li><a href=\"/{}\">{}</a></li>"
Link(href, text) == [href |-> href, text |-> text]
LinkLen(l) == LinkLiteralLen + DisplayLen(l.href) + Len(l.text)

RECURSIVE ListLen(_)
ListLen(list) == IF list = <<>> THEN 0 ELSE LinkLen(Head(list)) + ListLen(Tail(list))

RECURSIVE Digits(_)
Digits(n) == IF n < 10 THEN 1 ELSE 1 + Digits(n \div 10)

\* String::len of a piece
PieceLen(p) ==
    CASE p.t = "text" -> Len(p.s)
      [] p.t = "num" -> Digits(p.n)
      [] p.t = "bytes" -> Len(p.b)
      [] p.t = "page" -> PagePrefixLen + ListLen(p.list) + PageSuffixLen

\* String::from_utf8_lossy: every maximal ill-formed run becomes U+FFFD
Cont(b, lo, hi) == b >= lo /\ b <= hi
Replacement == <<239, 191, 189>>

\* length of the well-formed character at the head of b, 0 when ill-formed
CharLen(b) ==
    LET b1 == b[1]
        lo2 == IF b1 = 224 THEN 160 ELSE IF b1 = 240 THEN 144 ELSE 128
        hi2 == IF b1 = 237 THEN 159 ELSE IF b1 = 244 THEN 143 ELSE 191
    IN  IF b1 < 128 THEN 1
        ELSE IF Cont(b1, 194, 223)
             THEN IF Len(b) >= 2 /\ Cont(b[2], 128, 191) THEN 2 ELSE 0
        ELSE IF Cont(b1, 224, 239)
             THEN IF Len(b) >= 3 /\ Cont(b[2], lo2, hi2) /\ Cont(b[3], 128, 191) THEN 3 ELSE 0
        ELSE IF Cont(b1, 240, 244)
             THEN IF Len(b) >= 4 /\ Cont(b[2], lo2, hi2) /\ Cont(b[3], 128, 191)
                     /\ Cont(b[4], 128, 191) THEN 4 ELSE 0
        ELSE 0

\* length of the ill-formed run at the head of b that one U+FFFD replaces
BadLen(b) ==
    LET b1 == b[1]
        lo2 == IF b1 = 224 THEN 160 ELSE IF b1 = 240 THEN 144 ELSE 128
        hi2 == IF b1 = 237 THEN 159 ELSE IF b1 = 244 THEN 143 ELSE 191
    IN  IF Cont(b1, 224, 244) /\ Len(b) >= 2 /\ Cont(b[2], lo2, hi2)
        THEN IF Cont(b1, 240, 244) /\ Len(b) >= 3 /\ Cont(b[3], 128, 191) THEN 3 ELSE 2
        ELSE 1

RECURSIVE from_utf8_lossy(_)
from_utf8_lossy(b) ==
    IF b = <<>> THEN <<>>
    ELSE IF CharLen(b) > 0
         THEN SubSeq(b, 1, CharLen(b)) \o from_utf8_lossy(SubSeq(b, CharLen(b) + 1, Len(b)))
         ELSE Replacement \o from_utf8_lossy(SubSeq(b, BadLen(b) + 1, Len(b)))

\* infer::get_from_path(..).map_or("application/octet-stream", ..): the type
\* is read off the leading bytes
mime_type(b) ==
    IF Len(b) >= 3 /\ SubSeq(b, 1, 3) = <<255, 216, 255>> THEN "image/jpeg"
    ELSE "application/octet-stream"

\* "{} {}\n{}\nContent-Type: {}\nContent-Length: {}\r\n\r\n"
Header(v, st, ar, mime, n) ==
    <<T(VersionDisplay(v)), T(" "), T(ResponseStatusDisplay(st)), T("\n"),
      T(AcceptRangesDisplay(ar)), T("\nContent-Type: "), T(mime),
      T("\nContent-Length: "), N(n), T("\r\n\r\n")>>

(* --------------------------- HttpResponse::new ------------------------- *)

NoResult == [ok |-> FALSE, err |-> "pending"]

\* Err(e) returned by `?` or by `return Err(..)`
Err(e) == [ok |-> FALSE, err |-> e]

Fail(e) ==
    /\ result' = Err(e)
    /\ pc' = "done"

Init ==
    /\ fs \in FileSystems
    /\ pc = "idle"
    /\ request = [path |-> [abs |-> FALSE, segs |-> <<>>], version |-> "V1_1"]
    /\ server_root_path = <<>>
    /\ resource = Dot
    /\ new_path = <<>>
    /\ rootcwd_len = 0
    /\ resource_len = 0
    /\ status = "NotFound"
    /\ content_length = 0
    /\ accept_ranges = "None"
    /\ content = <<>>
    /\ response_body = <<>>
    /\ result = NoResult

\* lines 20-36: the locals, current_dir()?, the resource and the joined path
Start ==
    /\ pc = "idle"
    /\ \E p \in RequestPaths, v \in Versions :
          /\ request' = [path |-> p, version |-> v]
          /\ status' = "NotFound"
          /\ content_length' = 0
          /\ accept_ranges' = "None"
          /\ response_body' = <<>>
          /\ IF Kind(fs, Root) = "dir"
             THEN LET res == IF p.segs = <<>> THEN Dot ELSE p
                  IN  /\ server_root_path' = Root
                      /\ resource' = res
                      /\ new_path' = join(Root, res)
                      /\ pc' = "canon_root"
                      /\ UNCHANGED result
             ELSE /\ Fail("NotFound")
                  /\ UNCHANGED <<server_root_path, resource, new_path>>
    /\ UNCHANGED <<fs, rootcwd_len, resource_len, content>>

\* line 38
CanonRoot ==
    /\ pc = "canon_root"
    /\ LET c == canonicalize(fs, server_root_path)
       IN  IF c.ok
           THEN /\ rootcwd_len' = components_count(c.path)
                /\ pc' = "canon_resource"
                /\ UNCHANGED result
           ELSE /\ Fail(c.err)
                /\ UNCHANGED rootcwd_len
    /\ UNCHANGED <<fs, request, server_root_path, resource, new_path, resource_len,
                   status, content_length, accept_ranges, content, response_body>>

\* line 39 with the failure answered as a missing resource
CanonResourceAsMissing ==
    /\ pc = "canon_resource"
    /\ LET c == canonicalize(fs, new_path)
       IN  IF c.ok
           THEN /\ resource_len' = components_count(c.path)
                /\ pc' = "check"
                /\ UNCHANGED <<response_body, content_length>>
           ELSE /\ response_body' = <<T(NotFound404)>>
                /\ content_length' = Len(NotFound404)
                /\ pc' = "return"
                /\ UNCHANGED resource_len
    /\ UNCHANGED <<fs, request, server_root_path, resource, new_path, rootcwd_len,
                   status, accept_ranges, content, result>>

\* line 39
CanonResource ==
    /\ pc = "canon_resource"
    /\ LET c == canonicalize(fs, new_path)
       IN  IF c.ok
           THEN /\ resource_len' = components_count(c.path)
                /\ pc' = "check"
                /\ UNCHANGED result
           ELSE /\ Fail(c.err)
                /\ UNCHANGED resource_len
    /\ UNCHANGED <<fs, request, server_root_path, resource, new_path, rootcwd_len,
                   status, content_length, accept_ranges, content, response_body>>

\* lines 42-49 and 133-138: the containment check, then exists()
CheckPath ==
    /\ pc = "check"
    /\ IF rootcwd_len > resource_len
       THEN /\ status' = "NotFound"
            /\ response_body' = <<T(Forbidden403)>>
            /\ content_length' = Len(Forbidden403)
            /\ pc' = "return"
       ELSE IF exists(fs, new_path)
       THEN /\ pc' = "is_file"
            /\ UNCHANGED <<status, response_body, content_length>>
       ELSE /\ response_body' = <<T(NotFound404)>>
            /\ content_length' = Len(NotFound404)
            /\ pc' = "return"
            /\ UNCHANGED status
    /\ UNCHANGED <<fs, request, server_root_path, resource, new_path, rootcwd_len,
                   resource_len, accept_ranges, content, result>>

\* line 51
IsFile ==
    /\ pc = "is_file"
    /\ pc' = IF is_file(fs, new_path) THEN "read" ELSE "is_dir"
    /\ UNCHANGED <<fs, request, locals, result>>

\* std::fs::read: a fifo nobody writes to blocks the read
read(f, segs) ==
    LET r == Resolve(f, segs)
        e == Entry(f, r.path)
    IN  IF ~r.ok THEN [ok |-> FALSE, err |-> r.err, bytes |-> <<>>]
        ELSE IF e.kind = "dir" THEN [ok |-> FALSE, err |-> "IsADirectory", bytes |-> <<>>]
        ELSE IF ~e.readable THEN [ok |-> FALSE, err |-> "PermissionDenied", bytes |-> <<>>]
        ELSE [ok |-> TRUE, err |-> "", bytes |-> e.bytes]

\* lines 54-57
ReadFile ==
    /\ pc = "read"
    /\ Kind(fs, Resolve(fs, new_path).path) # "fifo"
    /\ LET r == read(fs, new_path)
       IN  IF r.ok
           THEN /\ content' = r.bytes
                /\ content_length' = Len(r.bytes)
                /\ status' = "OK"
                /\ accept_ranges' = "Bytes"
                /\ pc' = "infer"
                /\ UNCHANGED result
           ELSE /\ Fail(r.err)
                /\ UNCHANGED <<content, content_length, status, accept_ranges>>
    /\ UNCHANGED <<fs, request, server_root_path, resource, new_path, rootcwd_len,
                   resource_len, response_body>>

\* lines 60-69: the type is sniffed from the file as it is now, the text is
\* the header and the decoded content
InferAndFormat ==
    /\ pc = "infer"
    /\ Kind(fs, Resolve(fs, new_path).path) # "fifo"
    /\ LET r == read(fs, new_path)
       IN  IF r.ok
           THEN /\ response_body' =
                      Header(version, status, accept_ranges, mime_type(r.bytes), content_length)
                      \o <<B(from_utf8_lossy(content))>>
                /\ pc' = "return"
                /\ UNCHANGED result
           ELSE /\ Fail(r.err)
                /\ UNCHANGED response_body
    /\ UNCHANGED <<fs, request, server_root_path, resource, new_path, rootcwd_len,
                   resource_len, status, content_length, accept_ranges, content>>

\* line 72: what is neither a file nor a directory falls through
IsDir ==
    /\ pc = "is_dir"
    /\ pc' = IF is_dir(fs, new_path) THEN "list_dir" ELSE "return"
    /\ UNCHANGED <<fs, request, locals, result>>

ChildNames(f, d) == {p[Len(p)] : p \in {q \in Nodes : Parent(q) = d /\ f[q].kind # "none"}}

DirEntry(segs, rel) == [path |-> segs \o rel, file_name |-> rel[Len(rel)]]

\* a walk that descends into the subdirectories
WalkDirAllDepths(f, segs) ==
    LET r == Resolve(f, segs)
        e == Entry(f, r.path)
        below == {q \in Nodes : /\ Len(q) > Len(r.path)
                                /\ SubSeq(q, 1, Len(r.path)) = r.path
                                /\ f[q].kind # "none"}
    IN  IF ~r.ok THEN [ok |-> FALSE, err |-> r.err, entries |-> {}]
        ELSE IF e.kind # "dir" THEN [ok |-> TRUE, err |-> "", entries |-> {}]
        ELSE IF ~e.readable THEN [ok |-> FALSE, err |-> "PermissionDenied", entries |-> {}]
        ELSE [ok |-> TRUE, err |-> "",
              entries |-> {DirEntry(segs, SubSeq(q, Len(r.path) + 1, Len(q))) : q \in below}]

\* WalkDir::new(path).min_depth(1).max_depth(1): the entries of the
\* directory; a path that is no directory is its own and only entry, at
\* depth 0, and is left out
WalkDir(f, segs) ==
    LET r == Resolve(f, segs)
        e == Entry(f, r.path)
    IN  IF ~r.ok THEN [ok |-> FALSE, err |-> r.err, entries |-> {}]
        ELSE IF e.kind # "dir" THEN [ok |-> TRUE, err |-> "", entries |-> {}]
        ELSE IF ~e.readable THEN [ok |-> FALSE, err |-> "PermissionDenied", entries |-> {}]
        ELSE [ok |-> TRUE, err |-> "",
              entries |-> {DirEntry(segs, <<n>>) : n \in ChildNames(f, r.path)}]

\* the orders in which the file system may yield a set of entries
Orderings(S) ==
    {o \in [1..Cardinality(S) -> S] : \A i, j \in 1..Cardinality(S) : o[i] = o[j] => i = j}

\* lines 77-84
GoBack(res) ==
    IF res # Dot
    THEN LET par == parent(res)
         IN  <<Link(IF par.some THEN par.path ELSE [abs |-> TRUE, segs |-> <<>>], GoBackText)>>
    ELSE <<>>

\* lines 73-130
ListDirectory ==
    /\ pc = "list_dir"
    /\ LET w == WalkDir(fs, new_path)
       IN  IF ~w.ok
           THEN /\ Fail(w.err)
                /\ UNCHANGED <<content_length, response_body, status>>
           ELSE \E order \in Orderings(w.entries) :
                   IF \E i \in DOMAIN order : ~strip_prefix(order[i].path, server_root_path).ok
                   THEN /\ Fail("Other")
                        /\ UNCHANGED <<content_length, response_body, status>>
                   ELSE LET dir_list ==
                                GoBack(resource) \o
                                [i \in DOMAIN order |->
                                    Link(strip_prefix(order[i].path, server_root_path).path,
                                         order[i].file_name)]
                            html == Page(dir_list)
                        IN  /\ content_length' = PieceLen(html)
                            /\ response_body' =
                                  Header(version, status, accept_ranges, "text/html",
                                         PieceLen(html)) \o <<html>>
                            /\ status' = "OK"
                            /\ pc' = "return"
                            /\ UNCHANGED result
    /\ UNCHANGED <<fs, request, server_root_path, resource, new_path, rootcwd_len,
                   resource_len, accept_ranges, content>>

\* lines 141-148
Return ==
    /\ pc = "return"
    /\ result' = [ok |-> TRUE, err |-> "", version |-> version, status |-> status,
                  content_length |-> content_length, accept_ranges |-> accept_ranges,
                  response_body |-> response_body, current_path |-> request.path]
    /\ pc' = "done"
    /\ UNCHANGED <<fs, request, locals>>

\* another process creates, removes or replaces one entry while the builder
\* runs
FsChange ==
    /\ pc \notin {"idle", "done"}
    /\ \E n \in Nodes :
          \E e \in Allowed[n] \ {fs[n]} :
             /\ WellFormed([fs EXCEPT ![n] = e])
             /\ fs' = [fs EXCEPT ![n] = e]
    /\ UNCHANGED <<pc, request, locals, result>>

Next ==
    \/ Start
    \/ CanonRoot
    \/ CanonResource
    \/ CheckPath
    \/ IsFile
    \/ ReadFile
    \/ InferAndFormat
    \/ IsDir
    \/ ListDirectory
    \/ Return

Spec == Init /\ [][Next]_vars

NextRace == Next \/ FsChange

SpecRace == Init /\ [][NextRace]_vars

(* ------------------------------ properties ----------------------------- *)

\* the invocation returned a response
Responded == pc = "done" /\ result.ok

\* the requested location: the request path joined to the server root
RequestedPath == join(Root, IF request.path.segs = <<>> THEN Dot ELSE request.path)
Target == Resolve(fs, RequestedPath)

RootExists == Kind(fs, Root) = "dir"

\* p is the server root or lies below it
UnderRoot(p) == Len(p) >= Len(Root) /\ SubSeq(p, 1, Len(Root)) = Root

HasHeader(txt) == Len(txt) = 11
BodyIs(txt, html) == txt # <<>> /\ txt[Len(txt)] = T(html)
IsFileText(txt) == HasHeader(txt) /\ txt[11].t = "bytes"
IsPageText(txt) == HasHeader(txt) /\ txt[11].t = "page"

\* C1: a request path whose canonical form lies outside the server root is
\* answered with status NotFound and the 403 body, never with a file or a
\* listing
C1_OutsideRootIsForbidden ==
    (pc = "done" /\ RootExists /\ Target.ok /\ ~UnderRoot(Target.path))
        => /\ result.ok
           /\ result.status = "NotFound"
           /\ BodyIs(result.response_body, Forbidden403)

\* C2: a request path that does not exist is answered, successfully, with
\* status NotFound and the 404 body
C2_MissingIsNotFound ==
    (pc = "done" /\ RootExists /\ ~exists(fs, RequestedPath))
        => /\ result.ok
           /\ result.status = "NotFound"
           /\ BodyIs(result.response_body, NotFound404)

\* C3: content_length, and the number in the Content-Length header, is the
\* byte length of the content appended after the header block
C3_ContentLengthIsBodyLength ==
    (Responded /\ result.response_body # <<>>)
        => LET txt == result.response_body
           IN  /\ PieceLen(txt[Len(txt)]) = result.content_length
               /\ HasHeader(txt) => txt[9] = N(result.content_length)

\* C4: a directory response has status OK and its text starts with the
\* status line of that status, "200 OK", with accept-ranges none and
\* Content-Type text/html
C4_DirectoryStatusLine ==
    (Responded /\ is_dir(fs, RequestedPath) /\ IsPageText(result.response_body))
        => LET txt == result.response_body
           IN  /\ result.status = "OK"
               /\ txt[3] = T(ResponseStatusDisplay(result.status))
               /\ txt[3] = T("200 OK")
               /\ txt[5] = T("accept-ranges: none")
               /\ txt[7] = T("text/html")

\* txt is "<version> <status>\n<accept-ranges>\nContent-Type: <mime>\n
\* Content-Length: <n>\r\n\r\n<body>"
Serialized(txt) ==
    /\ HasHeader(txt)
    /\ txt[1] \in {T(VersionDisplay(v)) : v \in Versions}
    /\ txt[2] = T(" ")
    /\ txt[3] \in {T("200 OK"), T("404 NOT FOUND")}
    /\ txt[4] = T("\n")
    /\ txt[5] \in {T("accept-ranges: bytes"), T("accept-ranges: none")}
    /\ txt[6] = T("\nContent-Type: ")
    /\ txt[7].t = "text"
    /\ txt[8] = T("\nContent-Length: ")
    /\ txt[9].t = "num"
    /\ txt[10] = T("\r\n\r\n")

\* C5: whatever the classification, the response text is the status line
\* and the headers followed by the body
C5_EveryResponseIsSerialized ==
    Responded => Serialized(result.response_body)

\* a file-system call of the step the builder is about to take fails
FailureAhead ==
    \/ pc = "canon_root" /\ ~canonicalize(fs, server_root_path).ok
    \/ pc = "canon_resource" /\ ~canonicalize(fs, new_path).ok
    \/ pc \in {"read", "infer"} /\ ~read(fs, new_path).ok
    \/ pc = "list_dir" /\ ~WalkDir(fs, new_path).ok
    \/ pc = "list_dir" /\ \E e \in WalkDir(fs, new_path).entries :
                             ~strip_prefix(e.path, server_root_path).ok

ChildLinks(list) == {i \in DOMAIN list : list[i].text # GoBackText}

\* where a link leads: its href is "/" and a path taken from the server root
HrefTarget(l) == Resolve(fs, Root \o l.href.segs)

PlainRelative(p) == ~p.abs /\ \A i \in DOMAIN p.segs : p.segs[i] \notin {".", ".."}

\* C7: in a directory response every immediate child of the directory, and
\* nothing deeper, is listed exactly once, as a link named after the child
\* whose href is "/" and the child's path relative to the server root
C7_ListingIsTheChildren ==
    (Responded /\ IsPageText(result.response_body))
        => LET list == result.response_body[11].list
               kids == ChildNames(fs, Target.path)
           IN  /\ \A n \in kids :
                     Cardinality({i \in ChildLinks(list) :
                                     /\ list[i].text = n
                                     /\ ~list[i].href.abs
                                     /\ HrefTarget(list[i]).ok
                                     /\ HrefTarget(list[i]).path = Append(Target.path, n)}) = 1
               /\ Cardinality(ChildLinks(list)) = Cardinality(kids)
               /\ PlainRelative(request.path) /\ request.path.segs # <<>>
                     => \A i \in ChildLinks(list) :
                           list[i].href.segs = Append(request.path.segs, list[i].text)

\* the server root, holding a file and a directory that has a child of its
\* own, was listed
C7_Witness ==
    /\ Responded
    /\ IsPageText(result.response_body)
    /\ Target.path = Root
    /\ ChildNames(fs, Root) = {"sub", "f"}
    /\ ChildNames(fs, <<"www", "sub">>) = {"f"}

\* C8: a listing of the server root has no "go back up" link, whatever the
\* request path; any other listing has exactly one, to the parent of the
\* requested path
C8_GoBackUnlessRoot ==
    (Responded /\ IsPageText(result.response_body))
        => LET list == result.response_body[11].list
               ups == {i \in DOMAIN list : list[i].text = GoBackText}
           IN  IF Target.path = Root
               THEN ups = {}
               ELSE /\ Cardinality(ups) = 1
                    /\ \A i \in ups : parent(request.path).some
                                      /\ list[i].href = parent(request.path).path

\* C9: the version of the response, stored and written in the status line,
\* is the version of the request
C9_VersionThreadedThrough ==
    Responded
        => /\ result.version = request.version
           /\ HasHeader(result.response_body)
                 => result.response_body[1] = T(VersionDisplay(request.version))

\* C10: every response is the 403 body, the 404 body, a file response or a
\* directory response, so its text is never empty
C10_ResponseIsOneOfFour ==
    Responded
        => /\ result.response_body # <<>>
           /\ \/ result.response_body = <<T(Forbidden403)>>
              \/ result.response_body = <<T(NotFound404)>>
              \/ IsFileText(result.response_body)
              \/ IsPageText(result.response_body)

====
